---- MODULE Spec2Model ----
(***************************************************************************)
(* Model of the split-central key-matrix scanner of rmk-dflipdaisy         *)
(* (src/rmk-dflipdaisy/src/custom/central.rs): CentralMatrix::new, scan,   *)
(* wait_for_key, get_key_state / update_key_state, together with the       *)
(* debouncer it calls, the bounded key_event_channel it sends to, and the  *)
(* single consumer of that channel.                                        *)
(*                                                                         *)
(* Time is counted in ticks, TicksPerSec ticks to the second.  The 1 us    *)
(* settle delays take no tick, the 100 us inter-cycle delay takes 0 or 1   *)
(* tick (one tick stands for the many quiet cycles a real tick spans), and *)
(* the two unbounded suspensions (a send on a full channel, the idle wait) *)
(* take any number of ticks.                                               *)
(***************************************************************************)
EXTENDS Integers, Sequences, FiniteSets, TLC

\* ---------------------------------------------------------------- bounds
MaxTime == 8
MaxChanges == 3
MaxFaults == 1
MaxApiCalls == 2
TicksPerSec == 4
CHANNEL_SIZE == 1
MaxSamples == 5

\* ------------------------------------------------------------- constants
\* start_time.elapsed().as_secs() < 1
IDLE_SECS == 1
\* number of consecutive consistent samples of the fast variant
RAPID_SAMPLES == 3
\* debounce window of the default variant, in ticks
DEBOUNCE_WINDOW == 1
\* row, col are cast `as u8`
U8 == 256

None == -1

VARIABLES
    cfg,            \* build configuration: features and const generics
    pc,             \* position of the scan task
    out_idx,        \* index of the outer loop of scan
    in_idx,         \* index of the inner loop of scan
    out_level,      \* electrical level of each output pin
    contact,        \* physical state of each switch (TRUE: closed)
    key_states,     \* self.key_states[out][in].pressed
    counter,        \* fast debouncer: consecutive deviating samples per cell
    pending_since,  \* default debouncer: start of the pending window per cell
    scan_start,     \* self.scan_start: None or an Instant
    now,            \* Instant::now(), in ticks
    channel,        \* key_event_channel: queued KeyEvents
    sending,        \* the KeyEvent of a send suspended on a full channel
    emitted,        \* history: every KeyEvent handed to send, in order
    received,       \* history: every KeyEvent the consumer received, in order
    changes,        \* contact changes still to come
    faults,         \* pin faults still to come
    faulted,        \* history: kind of the last pin fault
    streak,         \* history: per cell, the current run of equal samples
    poll_since,     \* history: time of the last return of wait_for_key
    pass_mark,      \* history: Len(emitted) when the current pass began
    woke,           \* history: cells closed at the last wake and ever since
    api_calls,      \* history: number of update_key_state calls so far
    samples,        \* history: the first samples of the cell of a 1 x 1 matrix
    write_failed    \* history: a write to an output pin has failed

vars == <<cfg, pc, out_idx, in_idx, out_level, contact, key_states, counter,
          pending_since, scan_start, now, channel, sending, emitted, received,
          changes, faults, faulted, streak, poll_since, pass_mark, woke, api_calls, samples, write_failed>>

\* ---------------------------------------------------------- configuration
Config(am, rd, c2r, outs, ins, ro, co) ==
    [async_matrix |-> am, rapid_debouncer |-> rd, col2row |-> c2r,
     OUTPUT_PIN_NUM |-> outs, INPUT_PIN_NUM |-> ins,
     ROW_OFFSET |-> ro, COL_OFFSET |-> co]

Outs == 0 .. (cfg.OUTPUT_PIN_NUM - 1)
Ins == 0 .. (cfg.INPUT_PIN_NUM - 1)
Cells == Outs \X Ins

\* MatrixTrait::ROW and MatrixTrait::COL
ROW == IF cfg.col2row THEN cfg.INPUT_PIN_NUM ELSE cfg.OUTPUT_PIN_NUM
COL == IF cfg.col2row THEN cfg.OUTPUT_PIN_NUM ELSE cfg.INPUT_PIN_NUM

Min(a, b) == IF a < b THEN a ELSE b

\* ------------------------------------------------------------------ pins
\* An input pin reads high when a closed switch joins it to a high output.
PinHigh(i) == \E o \in Outs : out_level[o] /\ contact[<<o, i>>]

ReadResults == {"Ok", "Err"}

\* in_pin.is_high().ok().unwrap_or_default()
SampledTrueOnError(res, level) == IF res = "Ok" THEN level ELSE TRUE
Sampled(res, level) == IF res = "Ok" THEN level ELSE FALSE

\* out_pin.set_high().ok() / out_pin.set_low().ok(): a failed write leaves
\* the pin as it was, and the result is discarded.
PinStuckHigh(res, old, level) == old \/ level
PinNeverWritten(res, old, level) == old
PinAfterWrite(res, old, level) == IF res = "Ok" THEN level ELSE old

\* ------------------------------------------------------------- debouncer
\* detect_change_with_debounce(in_idx, out_idx, pin_state, &key_state)
RapidResult(c, pin, pressed) ==
    IF pin = pressed THEN "Unchanged"
    ELSE IF counter[c] + 1 >= RAPID_SAMPLES THEN "Debounced"
    ELSE "Ignored"

RapidCounterKept(c, pin, pressed) ==
    IF pin = pressed THEN counter[c]
    ELSE IF counter[c] + 1 >= RAPID_SAMPLES THEN 0
    ELSE counter[c] + 1
RapidCounterAfter(c, pin, pressed) ==
    IF pin = pressed THEN 0
    ELSE IF counter[c] + 1 >= RAPID_SAMPLES THEN 0
    ELSE counter[c] + 1

DefaultResult(c, pin, pressed) ==
    IF pin = pressed THEN "Unchanged"
    ELSE IF pending_since[c] = None THEN "Ignored"
    ELSE IF now - pending_since[c] >= DEBOUNCE_WINDOW THEN "Debounced"
    ELSE "Ignored"

DefaultPendingAfter(c, pin, pressed) ==
    IF pin = pressed THEN None
    ELSE IF pending_since[c] = None THEN now
    ELSE IF now - pending_since[c] >= DEBOUNCE_WINDOW THEN None
    ELSE pending_since[c]

detect_change_with_debounce(c, pin, pressed) ==
    IF cfg.rapid_debouncer THEN RapidResult(c, pin, pressed)
    ELSE DefaultResult(c, pin, pressed)

\* ------------------------------------------------------------------ scan
\* match debounce_state { DebounceState::Debounced => ..., _ => () }
ConfirmedUnlessUnchanged(ds) == ds /= "Unchanged"
Confirmed(ds) == ds = "Debounced"

\* self.key_states[out_idx][in_idx].toggle_pressed()
StoredAfterNoToggle(ds, pressed) == pressed
StoredAfterAlways(ds, pressed) == ~pressed
StoredAfter(ds, pressed) == IF Confirmed(ds) THEN ~pressed ELSE pressed

\* &self.key_states[out_idx][in_idx], as handed to the debouncer
StoredOfFirst(o, i) == key_states[<<o, 0>>]
StoredOf(o, i) == key_states[<<o, i>>]

\* (row, col, key_state) of the event, both orientations; `as u8`
KeyEventSwapped(o, i, pressed) ==
    IF cfg.col2row
    THEN [row |-> (o + cfg.ROW_OFFSET) % U8,
          col |-> (i + cfg.COL_OFFSET) % U8, pressed |-> pressed]
    ELSE [row |-> (i + cfg.ROW_OFFSET) % U8,
          col |-> (o + cfg.COL_OFFSET) % U8, pressed |-> pressed]
KeyEventStale(o, i, pressed) ==
    IF cfg.col2row
    THEN [row |-> (i + cfg.ROW_OFFSET) % U8,
          col |-> (o + cfg.COL_OFFSET) % U8, pressed |-> ~pressed]
    ELSE [row |-> (o + cfg.ROW_OFFSET) % U8,
          col |-> (i + cfg.COL_OFFSET) % U8, pressed |-> ~pressed]
KeyEventOf(o, i, pressed) ==
    IF cfg.col2row
    THEN [row |-> (i + cfg.ROW_OFFSET) % U8,
          col |-> (o + cfg.COL_OFFSET) % U8, pressed |-> pressed]
    ELSE [row |-> (o + cfg.ROW_OFFSET) % U8,
          col |-> (i + cfg.COL_OFFSET) % U8, pressed |-> pressed]

\* start_time.elapsed().as_secs()
as_secs(ticks) == ticks \div TicksPerSec

\* if start_time.elapsed().as_secs() < 1 { return; }
StillActiveNever(start) == FALSE
StillActive(start) == as_secs(now - start) < IDLE_SECS

\* if self.key_states[out_idx][in_idx].pressed { self.scan_start = Some(now) }
RefreshedOrCleared(pressed) ==
    IF cfg.async_matrix /\ pressed THEN now ELSE None
Refreshed(pressed) ==
    IF cfg.async_matrix /\ pressed THEN now ELSE scan_start

\* key_event_channel.send(ev).await suspends while the channel is full
SuspendsNever(ch) == FALSE
SuspendsAlways(ch) == TRUE
Suspends(ch) == Len(ch) >= CHANNEL_SIZE

\* the bounded channel after a send that did not suspend
Enqueued(ch, ev) == IF Len(ch) < CHANNEL_SIZE THEN Append(ch, ev) ELSE ch

\* for ... in self.input_pins.iter_mut().enumerate(): what follows a cell
LastIn == in_idx + 1 >= cfg.INPUT_PIN_NUM
LastOut == out_idx + 1 >= cfg.OUTPUT_PIN_NUM

\* sets of output pins whose write fails, within the faults still to come
FailSets == {b \in SUBSET Outs : Cardinality(b) <= faults}

\* history: the run of equal samples of a cell after one more sample
StreakAfter(st, pin, confirmed) ==
    LET same == (pin = st.val) IN
    [val |-> pin,
     n |-> IF ~cfg.rapid_debouncer THEN 1
           ELSE IF same THEN Min(st.n + 1, RAPID_SAMPLES + 1) ELSE 1,
     since |-> IF cfg.rapid_debouncer THEN 0
               ELSE IF same THEN st.since ELSE now,
     until |-> IF cfg.rapid_debouncer THEN 0 ELSE now,
     events |-> (IF same THEN st.events ELSE 0) + (IF confirmed THEN 1 ELSE 0),
     changed |-> st.changed \/ ~same]

\* history: on a 1 x 1 matrix, the sampled level of each of the first
\* MaxSamples samples, with the number of events emitted up to and including
\* the scan cycle of that sample
Recorded(tr, pin, confirmed) ==
    IF Cardinality(Cells) = 1 /\ Len(tr) < MaxSamples
    THEN Append(tr, [pin |-> pin,
                     sent |-> Len(emitted) + (IF confirmed THEN 1 ELSE 0)])
    ELSE tr

\* ------------------------------------------------------------------ Init
\* CentralMatrix::new: key_states all default, scan_start None
InitWith(cfgs, budget, moves, start) ==
    /\ cfg \in cfgs
    /\ pc = start
    /\ out_idx = 0
    /\ in_idx = 0
    /\ out_level = [o \in Outs |-> FALSE]
    /\ contact = [c \in Cells |-> FALSE]
    /\ key_states = [c \in Cells |-> FALSE]
    /\ counter = [c \in Cells |-> 0]
    /\ pending_since = [c \in Cells |-> None]
    /\ scan_start = None
    /\ now = 0
    /\ channel = << >>
    /\ sending = << >>
    /\ emitted = << >>
    /\ received = << >>
    /\ changes = moves
    /\ faults = budget
    /\ faulted = "none"
    /\ streak = [c \in Cells |->
                  [val |-> FALSE,
                   n |-> IF cfg.rapid_debouncer THEN RAPID_SAMPLES + 1 ELSE 1,
                   since |-> 0, until |-> 0, events |-> 0, changed |-> FALSE]]
    /\ poll_since = None
    /\ pass_mark = 0
    /\ woke = {}
    /\ api_calls = 0
    /\ samples = << >>
    /\ write_failed = FALSE

\* --------------------------------------------------------------- actions
\* top of `loop`: wait_for_key up to its select_slice, or straight on
LoopTop ==
    /\ pc = "loop"
    /\ pass_mark' = Len(emitted)
    /\ IF ~cfg.async_matrix \/ (scan_start /= None /\ StillActive(scan_start))
       THEN /\ pc' = "drive"
            /\ UNCHANGED <<scan_start, out_level, faults, faulted, write_failed>>
       ELSE \E bad \in FailSets :
            /\ pc' = "waiting"
            /\ scan_start' = None
            /\ out_level' = [o \in Outs |->
                    PinAfterWrite(IF o \in bad THEN "Err" ELSE "Ok",
                                  out_level[o], TRUE)]
            /\ faults' = faults - Cardinality(bad)
            /\ faulted' = IF bad = {} THEN faulted ELSE "write"
            /\ write_failed' = (write_failed \/ bad /= {})
    /\ UNCHANGED <<cfg, out_idx, in_idx, contact, key_states, counter,
                   pending_since, now, channel, sending, emitted, received,
                   changes, streak, poll_since, woke, api_calls, samples>>

\* select_slice returns: an input is high (or a wait failed); outputs are
\* set back low and scan_start = Some(Instant::now())
WaitReturn ==
    /\ pc = "waiting"
    /\ \E res \in ReadResults, bad \in FailSets :
        /\ IF res = "Ok" THEN \E i \in Ins : PinHigh(i)
           ELSE Cardinality(bad) < faults
        /\ out_level' = [o \in Outs |->
                PinAfterWrite(IF o \in bad THEN "Err" ELSE "Ok",
                              out_level[o], FALSE)]
        /\ faults' = faults - Cardinality(bad) - (IF res = "Ok" THEN 0 ELSE 1)
        /\ faulted' = IF res = "Err" THEN "wait"
                      ELSE IF bad = {} THEN faulted ELSE "write"
        /\ write_failed' = (write_failed \/ bad /= {})
    /\ scan_start' = now
    /\ poll_since' = now
    /\ woke' = {c \in Cells : contact[c] /\ out_level[c[1]]}
    /\ pc' = "drive"
    /\ UNCHANGED <<cfg, out_idx, in_idx, contact, key_states, counter,
                   pending_since, now, channel, sending, emitted, received,
                   changes, streak, pass_mark, api_calls, samples>>

\* out_pin.set_high().ok(); Timer::after_micros(1).await
DriveOutput ==
    /\ pc = "drive"
    /\ \E res \in ReadResults :
        /\ res = "Err" => faults > 0
        /\ out_level' = [out_level EXCEPT
                ![out_idx] = PinAfterWrite(res, @, TRUE)]
        /\ faults' = IF res = "Ok" THEN faults ELSE faults - 1
        /\ faulted' = IF res = "Ok" THEN faulted ELSE "write"
        /\ write_failed' = (write_failed \/ res = "Err")
    /\ pc' = "sample"
    /\ in_idx' = 0
    /\ UNCHANGED <<cfg, out_idx, contact, key_states, counter, pending_since,
                   scan_start, now, channel, sending, emitted, received,
                   changes, streak, poll_since, pass_mark, woke, api_calls, samples>>

\* what follows the body of the inner loop for the current cell
NextCell ==
    /\ pc' = IF LastIn THEN "lower" ELSE "sample"
    /\ in_idx' = IF LastIn THEN 0 ELSE in_idx + 1
    /\ UNCHANGED out_idx

\* one iteration of the inner loop: read, debounce, toggle, send, refresh
SampleCell ==
    /\ pc = "sample"
    /\ \E res \in ReadResults :
        LET c == <<out_idx, in_idx>>
            level == PinHigh(in_idx)
            pin == Sampled(res, level)
            seen == StoredOf(out_idx, in_idx)
            ds == detect_change_with_debounce(c, pin, seen)
            ks == StoredAfter(ds, key_states[c])
            ev == KeyEventOf(out_idx, in_idx, ks)
        IN  /\ res = "Err" => faults > 0
            /\ faults' = IF res = "Ok" THEN faults ELSE faults - 1
            /\ faulted' = IF res = "Ok" THEN faulted
                          ELSE IF level THEN "read_high" ELSE "read_low"
            /\ counter' = IF cfg.rapid_debouncer
                          THEN [counter EXCEPT ![c] =
                                    RapidCounterAfter(c, pin, seen)]
                          ELSE counter
            /\ pending_since' = IF cfg.rapid_debouncer THEN pending_since
                                ELSE [pending_since EXCEPT ![c] =
                                    DefaultPendingAfter(c, pin, seen)]
            /\ key_states' = [key_states EXCEPT ![c] = ks]
            /\ streak' = [streak EXCEPT ![c] =
                              StreakAfter(@, pin, Confirmed(ds))]
            /\ samples' = Recorded(samples, pin, Confirmed(ds))
            /\ IF Confirmed(ds)
               THEN /\ emitted' = Append(emitted, ev)
                    /\ IF Suspends(channel)
                       THEN /\ sending' = <<ev>>
                            /\ pc' = "send"
                            /\ UNCHANGED <<channel, scan_start, out_idx,
                                           in_idx>>
                       ELSE /\ channel' = Enqueued(channel, ev)
                            /\ scan_start' = Refreshed(ks)
                            /\ NextCell
                            /\ UNCHANGED sending
               ELSE /\ scan_start' = Refreshed(ks)
                    /\ NextCell
                    /\ UNCHANGED <<emitted, channel, sending>>
    /\ UNCHANGED <<cfg, out_level, contact, now, received, changes,
                   poll_since, pass_mark, woke, api_calls, write_failed>>

\* the suspended send completes once the channel has room
SendComplete ==
    /\ pc = "send"
    /\ ~Suspends(channel)
    /\ channel' = Enqueued(channel, sending[1])
    /\ sending' = << >>
    /\ scan_start' = Refreshed(key_states[<<out_idx, in_idx>>])
    /\ NextCell
    /\ UNCHANGED <<cfg, out_level, contact, key_states, counter,
                   pending_since, now, emitted, received, changes, faults,
                   faulted, streak, poll_since, pass_mark, woke, api_calls, samples, write_failed>>

\* out_pin.set_low().ok(); then the next output, or the inter-cycle delay
LowerOutput ==
    /\ pc = "lower"
    /\ \E res \in ReadResults :
        /\ res = "Err" => faults > 0
        /\ out_level' = [out_level EXCEPT
                ![out_idx] = PinAfterWrite(res, @, FALSE)]
        /\ faults' = IF res = "Ok" THEN faults ELSE faults - 1
        /\ faulted' = IF res = "Ok" THEN faulted ELSE "write"
        /\ write_failed' = (write_failed \/ res = "Err")
    /\ pc' = IF LastOut THEN "delay" ELSE "drive"
    /\ out_idx' = IF LastOut THEN 0 ELSE out_idx + 1
    /\ UNCHANGED <<cfg, in_idx, contact, key_states, counter, pending_since,
                   scan_start, now, channel, sending, emitted, received,
                   changes, streak, poll_since, pass_mark, woke, api_calls, samples>>

\* embassy_time::Timer::after_micros(100).await
Delay ==
    /\ pc = "delay"
    /\ \E d \in {0, 1} :
        /\ now + d <= MaxTime
        /\ now' = now + d
    /\ pc' = "loop"
    /\ UNCHANGED <<cfg, out_idx, in_idx, out_level, contact, key_states,
                   counter, pending_since, scan_start, channel, sending,
                   emitted, received, changes, faults, faulted, streak,
                   poll_since, pass_mark, woke, api_calls, samples, write_failed>>

\* time passes while the task is suspended without a deadline
Tick ==
    /\ pc \in {"send", "waiting"}
    /\ now < MaxTime
    /\ now' = now + 1
    /\ UNCHANGED <<cfg, pc, out_idx, in_idx, out_level, contact, key_states,
                   counter, pending_since, scan_start, channel, sending,
                   emitted, received, changes, faults, faulted, streak,
                   poll_since, pass_mark, woke, api_calls, samples, write_failed>>

\* the single consumer takes the oldest event from the channel
Consume ==
    /\ channel /= << >>
    /\ received' = Append(received, Head(channel))
    /\ channel' = Tail(channel)
    /\ UNCHANGED <<cfg, pc, out_idx, in_idx, out_level, contact, key_states,
                   counter, pending_since, scan_start, now, sending, emitted,
                   changes, faults, faulted, streak, poll_since, pass_mark,
                   woke, api_calls, samples, write_failed>>

\* a switch closes or opens; the change shows at the next read of the pins,
\* so it is taken right before one
ContactChange ==
    /\ changes > 0
    /\ pc \in {"sample", "waiting"}
    /\ \E c \in Cells :
        /\ contact' = [contact EXCEPT ![c] = ~@]
        /\ woke' = woke \ {c}
    /\ changes' = changes - 1
    /\ UNCHANGED <<cfg, pc, out_idx, in_idx, out_level, key_states, counter,
                   pending_since, scan_start, now, channel, sending, emitted,
                   received, faults, faulted, streak, poll_since, pass_mark,
                   api_calls, samples, write_failed>>

\* self.key_states[row][col]: the first index is taken as the output index,
\* the second as the input index
StoreIndex(row, col) == <<row, col>>

\* fn get_key_state(&mut self, row, col) -> KeyState: self.key_states[row][col]
\* An index outside the array panics.
GetKeyState ==
    /\ pc = "new"
    /\ \E row \in 0 .. (ROW - 1), col \in 0 .. (COL - 1) :
        pc' = IF StoreIndex(row, col) \in Cells THEN pc ELSE "panic"
    /\ UNCHANGED <<cfg, out_idx, in_idx, out_level, contact, key_states,
                   counter, pending_since, scan_start, now, channel, sending,
                   emitted, received, changes, faults, faulted, streak,
                   poll_since, pass_mark, woke, api_calls, samples, write_failed>>

\* fn update_key_state(&mut self, row, col, f): f(&mut self.key_states[row][col])
\* An index outside the array panics.
UpdateKeyState ==
    /\ pc = "new"
    /\ api_calls < MaxApiCalls
    /\ \E row \in 0 .. (ROW - 1), col \in 0 .. (COL - 1), v \in BOOLEAN :
        IF StoreIndex(row, col) \in Cells
        THEN /\ key_states' = [key_states EXCEPT ![StoreIndex(row, col)] = v]
             /\ pc' = pc
        ELSE /\ pc' = "panic"
             /\ UNCHANGED key_states
    /\ api_calls' = api_calls + 1
    /\ UNCHANGED <<cfg, out_idx, in_idx, out_level, contact, counter,
                   pending_since, scan_start, now, channel, sending, emitted,
                   received, changes, faults, faulted, streak, poll_since,
                   pass_mark, woke, samples, write_failed>>

\* matrix.scan() is called
StartScan ==
    /\ pc = "new"
    /\ pc' = "loop"
    /\ UNCHANGED <<cfg, out_idx, in_idx, out_level, contact, key_states,
                   counter, pending_since, scan_start, now, channel, sending,
                   emitted, received, changes, faults, faulted, streak,
                   poll_since, pass_mark, woke, api_calls, samples, write_failed>>

Next ==
    \/ LoopTop
    \/ WaitReturn
    \/ DriveOutput
    \/ SampleCell
    \/ SendComplete
    \/ LowerOutput
    \/ Delay
    \/ Tick
    \/ Consume
    \/ ContactChange

NextApi ==
    \/ GetKeyState
    \/ UpdateKeyState
    \/ StartScan
    \/ Next

\* -------------------------------------------------------- specifications
\* both debouncers, with and without idle-wait, on a 1 x 2 matrix wired
\* col2row ("use COL2ROW by default"); pins may fail
Configs ==
    {Config(am, rd, TRUE, 1, 2, 1, 2) : am, rd \in BOOLEAN}

Init == InitWith(Configs, MaxFaults, MaxChanges, "loop")

Spec == Init /\ [][Next]_vars

\* the matrix right after CentralMatrix::new, before scan is called
ApiConfigs ==
    {Config(am, TRUE, c2r, 1, 2, 1, 2) : am, c2r \in BOOLEAN}

InitApi == InitWith(ApiConfigs, 0, MaxChanges, "new")

SpecApi == InitApi /\ [][NextApi]_vars

\* a 2 x 2 matrix, reliable pins
GridConfigs ==
    {Config(am, TRUE, c2r, 2, 2, 1, 2) : am, c2r \in BOOLEAN}

InitGrid == InitWith(GridConfigs, 0, MaxChanges, "loop")

SpecGrid == InitGrid /\ [][Next]_vars

\* idle-wait enabled, reliable pins, more contact changes
IdleConfigs == {Config(TRUE, TRUE, FALSE, 1, 2, 1, 2)}

InitIdle == InitWith(IdleConfigs, 0, MaxChanges + 2, "loop")

SpecIdle == InitIdle /\ [][Next]_vars

\* the fast debouncer on a 1 x 1 matrix, both orientations; pins may fail
OneConfigs ==
    {Config(am, TRUE, c2r, 1, 1, 1, 2) : am, c2r \in BOOLEAN}

InitOne == InitWith(OneConfigs, MaxFaults, MaxChanges, "loop")

SpecOne == InitOne /\ [][Next]_vars

\* two output lines, one input line; pins may fail; the executor runs the
\* scan task whenever it can go on, and the consumer takes every event
LiveConfigs == {Config(am, TRUE, FALSE, 2, 1, 1, 2) : am \in BOOLEAN}

InitLive == InitWith(LiveConfigs, MaxFaults, MaxChanges - 1, "loop")

Fairness ==
    /\ WF_vars(LoopTop)
    /\ WF_vars(WaitReturn)
    /\ WF_vars(DriveOutput)
    /\ WF_vars(SampleCell)
    /\ WF_vars(SendComplete)
    /\ WF_vars(LowerOutput)
    /\ WF_vars(Delay)
    /\ WF_vars(Consume)

SpecLive == InitLive /\ [][Next]_vars /\ Fairness

\* the same matrix with no assumption on scheduling
SpecLines == InitLive /\ [][Next]_vars

\* offsets that bring index + offset to 256; idle-wait, reliable pins
WrapConfigs == {Config(TRUE, TRUE, c2r, 1, 2, 255, 255) : c2r \in BOOLEAN}

InitWrap == InitWith(WrapConfigs, 0, MaxChanges, "loop")

SpecWrap == InitWrap /\ [][Next]_vars

\* ------------------------------------------------- vocabulary of the claims
\* the cell an event names: the inverse of KeyEventOf
CellOf(ev) ==
    IF cfg.col2row
    THEN <<ev.col - cfg.COL_OFFSET, ev.row - cfg.ROW_OFFSET>>
    ELSE <<ev.row - cfg.ROW_OFFSET, ev.col - cfg.COL_OFFSET>>

IsFor(c, ev) == CellOf(ev) = c

EventsFor(c, evs) == SelectSeq(evs, LAMBDA e : IsFor(c, e))

LastPressed(c) ==
    LET es == EventsFor(c, emitted)
    IN  IF es = << >> THEN FALSE ELSE es[Len(es)].pressed

\* a step that hands exactly one event to send, for cell c, carrying bit b
EmitsFor(c, b) ==
    /\ Len(emitted') = Len(emitted) + 1
    /\ SubSeq(emitted', 1, Len(emitted)) = emitted
    /\ IsFor(c, emitted'[Len(emitted')])
    /\ emitted'[Len(emitted')].pressed = b

\* the current run of equal samples of c has reached the debounce threshold
Met(c) ==
    IF cfg.rapid_debouncer THEN streak[c].n >= RAPID_SAMPLES
    ELSE streak[c].until - streak[c].since >= DEBOUNCE_WINDOW

IdleTicks == IDLE_SECS * TicksPerSec

EntersWaiting == pc = "loop" /\ pc' = "waiting"

\* ------------------------------------------------------------------- C1
\* C1 (as stated): in every reachable state and for every cell, the stored
\* pressed bit equals the `pressed` field of the most recent KeyEvent emitted
\* for that cell (unpressed if none), update_key_state included.
C1_StoreMirrorsLastEvent ==
    \A c \in Cells : key_states[c] = LastPressed(c)

\* C1 (amended): a cell for which an event was emitted holds the `pressed`
\* field of its most recent event; scan changes a stored bit only in the step
\* that hands an event for that cell, carrying the new bit, to send, and
\* hands over no event without changing the bit; only update_key_state
\* changes a stored bit without an event.
C1_ScanMirrorsLastEvent ==
    /\ [](\A c \in Cells :
            EventsFor(c, emitted) /= << >> => key_states[c] = LastPressed(c))
    /\ [][\A c \in Cells :
            key_states'[c] /= key_states[c] =>
                pc = "new" \/ EmitsFor(c, key_states'[c])]_vars
    /\ [][emitted' /= emitted =>
            \E c \in Cells : /\ key_states'[c] /= key_states[c]
                              /\ EmitsFor(c, key_states'[c])]_vars

\* C1 witness: update_key_state set a cell that has no event, and scan
\* emitted an event for another cell.
C1_Witness ==
    /\ api_calls > 0
    /\ \E c, d \in Cells :
        /\ key_states[c] /\ EventsFor(c, emitted) = << >>
        /\ EventsFor(d, emitted) /= << >>

\* ------------------------------------------------------------------- C2
\* C2 (as stated): every change of a cell's level that is then held for the
\* debounce threshold yields exactly one KeyEvent for that cell.
C2_EveryHeldChangeEmits ==
    \A c \in Cells :
        (streak[c].changed /\ Met(c)) => streak[c].events = 1

\* C2 (amended): a run of equal samples of a cell (a failed read counts as
\* inactive) yields at most one event; it yields one only once it has
\* reached the threshold, and that event carries the level of the run, which
\* the store then holds; a run that reached the threshold without an event is
\* one whose level the store already held (a bounce that returned).
C2_HeldChangeFromStoredEmitsOnce ==
    \A c \in Cells :
        /\ streak[c].events <= 1
        /\ streak[c].events = 1 =>
              /\ Met(c)
              /\ key_states[c] = streak[c].val
              /\ LastPressed(c) = streak[c].val
              /\ EventsFor(c, emitted) /= << >>
        /\ (Met(c) /\ streak[c].events = 0) => key_states[c] = streak[c].val

\* C2 witness: a release was confirmed: a run of inactive samples reached
\* the threshold and produced its event.
C2_Witness ==
    \E c \in Cells :
        /\ streak[c].events = 1
        /\ streak[c].val = FALSE
        /\ Met(c)
        /\ Len(EventsFor(c, emitted)) = 2

\* ------------------------------------------------------------------- C3
\* C3: bounce rejection: a step after which the current run of equal samples
\* of a cell is still below the debounce threshold neither emits an event for
\* that cell nor changes its stored pressed bit.
C3_BounceRejected ==
    [][\A c \in Cells :
        ~Met(c)' =>
            /\ key_states'[c] = key_states[c]
            /\ EventsFor(c, emitted') = EventsFor(c, emitted)]_vars

\* C3 witness: a cell was sampled active and then inactive again before the
\* threshold, and no event was ever emitted for it.
C3_Witness ==
    \E c \in Cells :
        /\ streak[c].changed
        /\ streak[c].val = FALSE
        /\ ~Met(c)
        /\ EventsFor(c, emitted) = << >>
        /\ ~key_states[c]

\* ------------------------------------------------------------------- C4
\* C4: for every cell the events emitted for it alternate pressed = TRUE,
\* FALSE, TRUE, ..., starting with TRUE.
C4_EventsAlternate ==
    \A c \in Cells :
        LET es == EventsFor(c, emitted)
        IN  \A k \in 1 .. Len(es) : es[k].pressed = (k % 2 = 1)

\* C4 witness: press, release and press again were emitted for one cell.
C4_Witness ==
    \E c \in Cells : Len(EventsFor(c, emitted)) >= 3

\* ------------------------------------------------------------------- C5
\* scan order: ascending output index, then ascending input index
Before(c, d) == c[1] < d[1] \/ (c[1] = d[1] /\ c[2] < d[2])

\* C5: the events of one scan cycle appear in scan order (ascending output
\* index, within one output ascending input index), and they are emitted one
\* by one: a step emits at most one event, for the cell being sampled, and
\* while its send is suspended no other cell is sampled.
C5_ScanOrder ==
    /\ [](\A j, k \in (pass_mark + 1) .. Len(emitted) :
            j < k => Before(CellOf(emitted[j]), CellOf(emitted[k])))
    /\ [][emitted' /= emitted =>
            /\ pc = "sample"
            /\ EmitsFor(<<out_idx, in_idx>>, key_states'[<<out_idx, in_idx>>])
         ]_vars
    /\ [][(pc = "send" /\ pc' = "send") =>
            /\ emitted' = emitted
            /\ <<out_idx, in_idx>>' = <<out_idx, in_idx>>]_vars

\* C5 witness: three cells, on both output lines, were confirmed in the
\* same scan cycle.
C5_Witness ==
    /\ Len(emitted) >= pass_mark + 3
    /\ \E j, k \in (pass_mark + 1) .. Len(emitted) :
        /\ CellOf(emitted[j])[1] /= CellOf(emitted[k])[1]

ScanPositions ==
    {"loop", "waiting", "drive", "sample", "send", "lower", "delay"}

\* C7: a step in which the read of the input pin fails changes the debouncer,
\* the store, the channel and the loop position exactly as a read of "not
\* active" does; a step in which a write to an output pin fails moves the
\* loop on as a successful write does; no position outside the loop is ever
\* reached.
C7_FaultsAbsorbed ==
    /\ [](pc \in ScanPositions)
    /\ [][(pc = "sample" /\ faults' < faults) =>
            LET c == <<out_idx, in_idx>>
                ds == detect_change_with_debounce(c, FALSE, key_states[c])
            IN  /\ key_states' =
                      [key_states EXCEPT ![c] = StoredAfter(ds, @)]
                /\ counter' =
                      IF cfg.rapid_debouncer
                      THEN [counter EXCEPT
                               ![c] = RapidCounterAfter(c, FALSE, key_states[c])]
                      ELSE counter
                /\ pending_since' =
                      IF cfg.rapid_debouncer THEN pending_since
                      ELSE [pending_since EXCEPT
                               ![c] = DefaultPendingAfter(c, FALSE, key_states[c])]
                /\ streak'[c].val = FALSE
                /\ (emitted' /= emitted) = Confirmed(ds)
                /\ pc' = IF Confirmed(ds) /\ Suspends(channel) THEN "send"
                         ELSE IF LastIn THEN "lower" ELSE "sample"]_vars
    /\ [][(pc = "drive" /\ faults' < faults) =>
            (pc' = "sample" /\ out_level' = out_level)]_vars
    /\ [][(pc = "lower" /\ faults' < faults) =>
            (pc' = (IF LastOut THEN "delay" ELSE "drive")
             /\ out_level' = out_level)]_vars

\* C7 witness: the read of an input pin that was high failed, and the scan
\* went on to the next cell.
C7_Witness ==
    /\ faulted = "read_high"
    /\ pc = "sample"
    /\ in_idx = 1
    /\ streak[<<out_idx, 0>>].val = FALSE
    /\ contact[<<out_idx, 0>>]

\* ------------------------------------------------------------------- C8
\* C8: with idle-wait enabled, whenever the scanner is in Waiting every cell
\* of the store is unpressed.
C8_WaitingOnlyUnpressed ==
    (cfg.async_matrix /\ pc = "waiting") => \A c \in Cells : ~key_states[c]

C10_WakeEventBeforeWaiting ==
    pc = "waiting" =>
        \A c \in woke : key_states[c] /\ LastPressed(c)

\* ------------------------------------------------------------------ C11
\* the sampled levels active, inactive, active, active, active
BouncePattern == <<TRUE, FALSE, TRUE, TRUE, TRUE>>

\* the first k samples of the 1 x 1 matrix follow the pattern
FollowsPattern(k) ==
    /\ k <= Len(samples)
    /\ \A j \in 1 .. k : samples[j].pin = BouncePattern[j]

\* C11: with the fast debouncer (3 consecutive consistent samples) on a
\* 1 x 1 matrix starting unpressed, the samples active, inactive, active,
\* active, active produce no event up to the 4th sample and exactly one
\* event, with pressed = TRUE, in the scan cycle of the 5th sample.
C11_ThirdConsistentSampleEmits ==
    /\ \A k \in 1 .. 4 : FollowsPattern(k) => samples[k].sent = 0
    /\ FollowsPattern(5) =>
          /\ samples[5].sent = 1
          /\ emitted[1] = KeyEventOf(0, 0, TRUE)
          /\ emitted[1].pressed

\* C11 witness: the five samples were taken and the press event is out.
C11_Witness ==
    /\ FollowsPattern(5)
    /\ Len(emitted) = 1
    /\ key_states[<<0, 0>>]

\* ------------------------------------------------------------------ C12
\* C12: every confirmed transition of the cell at (output o, input i) emits
\* one KeyEvent whose (row, col) is (i + ROW_OFFSET, o + COL_OFFSET) when the
\* wiring is col2row and (o + ROW_OFFSET, i + COL_OFFSET) otherwise, and whose
\* `pressed` field is the stored bit of the cell after the toggle.
C12_EventCoordinates ==
    /\ [][emitted' /= emitted =>
            LET o == out_idx
                i == in_idx
                ev == emitted'[Len(emitted')]
            IN  /\ emitted' = Append(emitted, ev)
                /\ ev.row = IF cfg.col2row THEN i + cfg.ROW_OFFSET
                                           ELSE o + cfg.ROW_OFFSET
                /\ ev.col = IF cfg.col2row THEN o + cfg.COL_OFFSET
                                           ELSE i + cfg.COL_OFFSET
                /\ ev.pressed = key_states'[<<o, i>>]
                /\ key_states'[<<o, i>>] = ~key_states[<<o, i>>]]_vars
    /\ [][key_states' /= key_states => emitted' /= emitted]_vars

\* ------------------------------------------------------------------ C13
\* the output lines that are active
ActiveOuts == {o \in Outs : out_level[o]}

SamplesCurrent == pc = "sample" /\ (pc' /= "sample" \/ in_idx' /= in_idx)

\* the debouncer's answer in a step that samples the current cell
AnswerNow ==
    LET c == <<out_idx, in_idx>>
    IN  detect_change_with_debounce(c, streak'[c].val, key_states[c])

\* C15: a step changes no stored bit but that of the cell being sampled, and
\* that one only while sampling it; when the debouncer answers Ignored or
\* Unchanged the store is unchanged and no event is emitted; when it
\* answers Debounced exactly that cell's bit is toggled and exactly one
\* event is emitted.
C15_SampleFrame ==
    [][LET c == <<out_idx, in_idx>>
       IN  /\ \A d \in Cells \ {c} : key_states'[d] = key_states[d]
           /\ ~SamplesCurrent =>
                 (key_states' = key_states /\ emitted' = emitted)
           /\ (SamplesCurrent /\ AnswerNow \in {"Ignored", "Unchanged"}) =>
                 (key_states' = key_states /\ emitted' = emitted)
           /\ (SamplesCurrent /\ AnswerNow = "Debounced") =>
                 /\ key_states' = [key_states EXCEPT ![c] = ~@]
                 /\ Len(emitted') = Len(emitted) + 1
                 /\ SubSeq(emitted', 1, Len(emitted)) = emitted
      ]_vars

\* C15 witness: one cell was confirmed pressed and emitted its event while
\* another cell, sampled active below the threshold, is still unpressed.
C15_Witness ==
    \E c, d \in Cells :
        /\ c /= d
        /\ key_states[c]
        /\ Len(emitted) = 1
        /\ IsFor(c, emitted[1])
        /\ streak[d].val
        /\ counter[d] > 0
        /\ ~key_states[d]

\* ------------------------------------------------------------------ C16
\* some input line reads active
AnyHigh == \E i \in Ins : PinHigh(i)

\* the cells of the 2 x 1 matrix
LiveCells == {<<0, 0>>, <<1, 0>>}

\* C16: provided the consumer takes every event (fairness of Consume) and
\* an input goes active again and again while the scanner is Waiting, the
\* scan loop never stops: every cell is sampled infinitely often and the
\* scan cycle completes (reaches its inter-cycle delay) infinitely often.
C16_LoopNeverStops ==
    []<>(pc /= "waiting" \/ AnyHigh) =>
        /\ \A c \in LiveCells :
              []<><<SamplesCurrent /\ <<out_idx, in_idx>> = c>>_vars
        /\ []<>(pc = "delay")

\* C16 witness: a scan cycle completes after the scanner was woken from
\* Waiting, a pin has failed, and a press and a release were delivered.
C16_Witness ==
    /\ pc = "delay"
    /\ cfg.async_matrix
    /\ poll_since /= None
    /\ faulted /= "none"
    /\ Len(received) = 2

\* ------------------------------------------------------------------ C17
\* C17: the scanner leaves Waiting only in a step in which some input line
\* reads active; while every input line is inactive a step leaves it in
\* Waiting, samples no cell, changes no stored state and emits no event.
C17_LeavesWaitingOnlyOnActiveInput ==
    /\ [][(pc = "waiting" /\ pc' /= "waiting") => AnyHigh]_vars
    /\ [][(pc = "waiting" /\ ~AnyHigh) =>
            /\ pc' = "waiting"
            /\ key_states' = key_states
            /\ counter' = counter
            /\ streak' = streak
            /\ emitted' = emitted]_vars

\* ------------------------------------------------------------------ C18
\* the local coordinates (row, col) of the events of the cell at (o, i)
LocalOf(o, i) ==
    LET ev == KeyEventOf(o, i, TRUE)
    IN  <<ev.row - cfg.ROW_OFFSET, ev.col - cfg.COL_OFFSET>>

\* C18: in both orientations get_key_state and update_key_state never index
\* outside the store (no panic), and for every row < ROW and col < COL the
\* cell they access is in the store and is the cell whose events carry the
\* local coordinates (row, col).
C18_ApiAccessesEventCell ==
    /\ pc /= "panic"
    /\ api_calls > 0 =>
          \A row \in 0 .. (ROW - 1), col \in 0 .. (COL - 1) :
              LET d == StoreIndex(row, col)
              IN  /\ d \in Cells
                  /\ LocalOf(d[1], d[2]) = <<row, col>>

\* ------------------------------------------------------------------ C19
\* C19: two distinct cells never produce events with the same (row, col),
\* and the row and col of every emitted event are index + offset of a cell
\* of the matrix: the conversion to 8 bits does not wrap.
C19_CoordinatesIdentifyCell ==
    /\ \A c, d \in Cells :
          LET e == KeyEventOf(c[1], c[2], TRUE)
              f == KeyEventOf(d[1], d[2], TRUE)
          IN  c /= d => <<e.row, e.col>> /= <<f.row, f.col>>
    /\ \A k \in 1 .. Len(emitted) :
          /\ emitted[k].row >= cfg.ROW_OFFSET
          /\ emitted[k].col >= cfg.COL_OFFSET
          /\ CellOf(emitted[k]) \in Cells

\* ------------------------------------------------------------------ C20
\* C20: with idle-wait enabled, scan_start is set at every position of a
\* Polling pass; it is unset only before the first wait (before scan is
\* called, or at the top of the loop with no wait behind) and while the
\* scanner is in Waiting, where it is always unset; so every return from
\* wait_for_key leaves it set.
C20_ScanStartSetWhilePolling ==
    cfg.async_matrix =>
        /\ pc \in {"drive", "sample", "send", "lower", "delay"} =>
              scan_start /= None
        /\ pc = "waiting" => scan_start = None
        /\ scan_start = None =>
              \/ pc = "waiting"
              \/ pc \in {"new", "loop"} /\ poll_since = None

\* C20 witness: in a Polling pass after a wake, scan_start was refreshed by
\* the sampling of a pressed cell.
C20_Witness ==
    /\ cfg.async_matrix
    /\ pc = "sample"
    /\ poll_since /= None
    /\ scan_start /= None
    /\ scan_start > poll_since

====
